---- MODULE Spec2Model ----
(***************************************************************************)
(* Model of jumble_solver.py: the module-level index COUNTER_TO_ANAGRAMS,  *)
(* ingest_word_list, solve_jumble and the __main__ entry point.            *)
(* A string is a sequence of one-character strings.                        *)
(***************************************************************************)
EXTENDS Bags, FiniteSets, Integers, Sequences, TLC

\* ---------------------------------------------------------------- bounds
MaxLines == 2
MaxLineLen == 2
MaxWordLen == 3

\* ---------------------------------------------------------------- inputs
Letters == {"a", "b"}
Whitespace == {" ", "\n"}

SeqsUpTo(S, n) == UNION {[1..m -> S] : m \in 0..n}

\* A line read from the file: a word, with or without blanks around it, then
\* the line terminator.
Pad == {<<>>, <<" ">>}
Lines == {pre \o body \o post \o <<"\n">> :
             pre \in Pad, post \in Pad, body \in SeqsUpTo(Letters, MaxLineLen)}

\* The query words (sys.argv[2], or the argument of a direct call).
Words == SeqsUpTo(Letters, MaxWordLen)

VARIABLES
    name,        \* __name__ : "__main__" when run as a script, else imported
    pc,          \* position of the single thread of control
    index,       \* COUNTER_TO_ANAGRAMS : key -> set of words
    input_word,  \* solve_jumble's argument
    i,           \* solve_jumble's outer loop variable
    combos,      \* solve_jumble's combos, of the current length
    out,         \* bag of <<i, word>> : the words printed by the current call
    looked,      \* bag of <<i, combo>> : the lookups made by the current call
    nlines,      \* history: the number of lines read by ingest_word_list so far
    seen,        \* history: the stripped text of every line read so far
    index0,      \* history: the index when the current call began
    call,        \* history: the function last called
    exc          \* the exception the last call ended in, or "none"

vars == <<name, pc, index, input_word, i, combos, out, looked, nlines, seen,
          index0, call, exc>>

\* ------------------------------------------------------------ str.strip()
RECURSIVE LStrip(_)
LStrip(s) == IF s # <<>> /\ Head(s) \in Whitespace THEN LStrip(Tail(s)) ELSE s

RECURSIVE RStrip(_)
RStrip(s) ==
    IF s # <<>> /\ s[Len(s)] \in Whitespace
    THEN RStrip(SubSeq(s, 1, Len(s) - 1))
    ELSE s

Strip(s) == RStrip(LStrip(s))

\* ------------------------------------------ frozenset(Counter(x).items())
Count(s, c) == Cardinality({p \in DOMAIN s : s[p] = c})

\* Variant: the set of characters, the counts dropped.
KeyNoCounts(s) == {<<s[p], 1>> : p \in DOMAIN s}

Key(s) == {<<s[p], Count(s, s[p])>> : p \in DOMAIN s}

\* ------------------------------------------------- the defaultdict(set)
EmptyIndex == [k \in {} |-> {}]

\* Variant: the bucket is assigned, not added to.
InsertReplacing(idx, k, word) ==
    IF k \in DOMAIN idx THEN [idx EXCEPT ![k] = {word}] ELSE idx @@ (k :> {word})

\* COUNTER_TO_ANAGRAMS[counter].add(word)
Insert(idx, k, word) ==
    IF k \in DOMAIN idx
    THEN [idx EXCEPT ![k] = @ \cup {word}]
    ELSE idx @@ (k :> {word})

\* COUNTER_TO_ANAGRAMS.get(counter, []) : the value returned
Get(idx, k) == IF k \in DOMAIN idx THEN idx[k] ELSE {}

\* Variant: COUNTER_TO_ANAGRAMS[counter], which makes the missing bucket.
IndexAfterSubscript(idx, k) == IF k \in DOMAIN idx THEN idx ELSE idx @@ (k :> {})

\* COUNTER_TO_ANAGRAMS.get(counter, []) : the mapping afterwards
IndexAfterGet(idx, k) == idx

\* --------------------------------------- set(combinations(input_word, i))
RECURSIVE Pick(_, _)
Pick(w, S) ==
    IF w = <<>> THEN <<>>
    ELSE IF Len(w) \in S
         THEN Append(Pick(SubSeq(w, 1, Len(w) - 1), S), w[Len(w)])
         ELSE Pick(SubSeq(w, 1, Len(w) - 1), S)

\* Variant: positions may repeat.
CombosWithReplacement(w, n) == {[j \in 1..n |-> w[f[j]]] : f \in [1..n -> DOMAIN w]}

Combos(w, n) == {Pick(w, S) : S \in {T \in SUBSET DOMAIN w : Cardinality(T) = n}}

\* range(1, len(input_word)+1)
LengthRange(w) == 1..Len(w)

\* Variant: no self-match suppression.
MatchesUnfiltered(bucket, w) == bucket

\* the words of a bucket that pass  if word != input_word
Matches(bucket, w) == {word \in bucket : word # w}

Printed(bucket, n) == SetToBag({<<n, word>> : word \in bucket})

\* for combo in combos: ... , from the index idx, for the query w at length n.
\* The result is the index, the lookups and the output after the loop; the
\* lookups and the output are bags, so the order of iteration does not show.
RECURSIVE ForCombos(_, _, _, _)
ForCombos(cs, idx, w, n) ==
    IF cs = {} THEN [index |-> idx, looked |-> EmptyBag, out |-> EmptyBag]
    ELSE LET combo == CHOOSE c \in cs : TRUE
             counter == Key(combo)
             bucket == Get(idx, counter)
             rest == ForCombos(cs \ {combo}, IndexAfterGet(idx, counter), w, n)
         IN  [index |-> rest.index,
              looked |-> SetToBag({<<n, combo>>}) (+) rest.looked,
              out |-> Printed(Matches(bucket, w), n) (+) rest.out]

\* ------------------------------------------------------------------ Init
Init ==
    /\ name \in {"__main__", "jumble_solver"}
    /\ pc = IF name = "__main__" THEN "main90" ELSE "idle"
    /\ index = EmptyIndex
    /\ input_word = <<>>
    /\ i = 0
    /\ combos = {}
    /\ out = EmptyBag
    /\ looked = EmptyBag
    /\ nlines = 0
    /\ seen = {}
    /\ index0 = EmptyIndex
    /\ call = "none"
    /\ exc = "none"

ResetSolveLocals ==
    /\ input_word' = <<>>
    /\ i' = 0
    /\ combos' = {}
    /\ out' = EmptyBag
    /\ looked' = EmptyBag

\* ------------------------------------------------------ ingest_word_list
\* The call, and open(file_path) succeeding.
IngestOpen ==
    /\ pc \in {"main90", "idle"}
    /\ pc' = "ingest65"
    /\ call' = "ingest_word_list"
    /\ exc' = "none"
    /\ index0' = index
    /\ ResetSolveLocals
    /\ UNCHANGED <<name, index, nlines, seen>>

\* Variant: the error is caught inside and the function returns normally.
IngestOpenFailSwallowed ==
    /\ pc \in {"main90", "idle"}
    /\ pc' = IF name = "__main__" THEN "main91" ELSE "idle"
    /\ call' = "ingest_word_list"
    /\ exc' = "IOError"
    /\ index0' = index
    /\ ResetSolveLocals
    /\ UNCHANGED <<name, index, nlines, seen>>

\* The call, and open(file_path) raising: the error leaves the function and,
\* in the script, the process.
IngestOpenFail ==
    /\ pc \in {"main90", "idle"}
    /\ pc' = IF name = "__main__" THEN "raised" ELSE "idle"
    /\ call' = "ingest_word_list"
    /\ exc' = "IOError"
    /\ index0' = index
    /\ ResetSolveLocals
    /\ UNCHANGED <<name, index, nlines, seen>>

\* One iteration of  for line in fp.
IngestLine ==
    /\ pc = "ingest65"
    /\ nlines < MaxLines
    /\ \E line \in Lines :
          LET word == Strip(line)
              counter == Key(word)
          IN  /\ index' = Insert(index, counter, word)
              /\ seen' = seen \cup {word}
    /\ nlines' = nlines + 1
    /\ UNCHANGED <<name, pc, input_word, i, combos, out, looked, index0, call, exc>>

\* End of file: the with block closes and the function returns.
IngestReturn ==
    /\ pc = "ingest65"
    /\ pc' = IF name = "__main__" THEN "main91" ELSE "idle"
    /\ UNCHANGED <<name, index, input_word, i, combos, out, looked, nlines, seen,
                   index0, call, exc>>

\* ---------------------------------------------------------- solve_jumble
\* Variant: an empty input_word is rejected with an error.
SolveCallRejectingEmpty ==
    /\ pc \in {"main91", "idle"}
    /\ \E w \in Words :
          /\ input_word' = w
          /\ exc' = IF w = <<>> THEN "ValueError" ELSE "none"
          /\ pc' = IF w # <<>> THEN "solve76"
                   ELSE IF name = "__main__" THEN "raised" ELSE "idle"
    /\ i' = 0
    /\ combos' = {}
    /\ out' = EmptyBag
    /\ looked' = EmptyBag
    /\ call' = "solve_jumble"
    /\ index0' = index
    /\ UNCHANGED <<name, index, nlines, seen>>

\* The call: the argument is bound and the outer loop is about to start.
SolveCall ==
    /\ pc \in {"main91", "idle"}
    /\ \E w \in Words : input_word' = w
    /\ pc' = "solve76"
    /\ i' = 0
    /\ combos' = {}
    /\ out' = EmptyBag
    /\ looked' = EmptyBag
    /\ call' = "solve_jumble"
    /\ exc' = "none"
    /\ index0' = index
    /\ UNCHANGED <<name, index, nlines, seen>>

\* One iteration of the outer loop: the next length, its combos, and the inner
\* loop over them.
SolveLength ==
    /\ pc = "solve76"
    /\ i + 1 \in LengthRange(input_word)
    /\ i' = i + 1
    /\ combos' = Combos(input_word, i + 1)
    /\ LET after == ForCombos(combos', index, input_word, i + 1)
       IN  /\ index' = after.index
           /\ looked' = looked (+) after.looked
           /\ out' = out (+) after.out
    /\ UNCHANGED <<name, pc, input_word, nlines, seen, index0, call, exc>>

\* The outer loop is exhausted: the function returns.
SolveReturn ==
    /\ pc = "solve76"
    /\ i + 1 \notin LengthRange(input_word)
    /\ pc' = IF name = "__main__" THEN "exit" ELSE "idle"
    /\ UNCHANGED <<name, index, input_word, i, combos, out, looked, nlines, seen,
                   index0, call, exc>>

Next ==
    \/ IngestOpen
    \/ IngestOpenFail
    \/ IngestLine
    \/ IngestReturn
    \/ SolveCall
    \/ SolveLength
    \/ SolveReturn

Spec == Init /\ [][Next]_vars

\* ------------------------------------------------- vocabulary of the claims
\* The character multiset of a string.
RECURSIVE BagOf(_)
BagOf(s) == IF s = <<>> THEN EmptyBag ELSE BagOf(Tail(s)) (+) SetToBag({Head(s)})

SubMultiset(x, w) == BagOf(x) \sqsubseteq BagOf(w)

\* The words ingested so far, the words the current call has yielded.
Ingested == seen
Yielded == {e[2] : e \in BagToSet(out)}

Returned == pc \in {"idle", "exit"}
Solved == call = "solve_jumble" /\ Returned /\ exc = "none"

\* The strings a key has been computed for: the words ingested and the combos
\* looked up.
Keyed == seen \cup {e[2] : e \in BagToSet(looked)}

\* The index as a function of a set of words alone.
IndexOf(S) == [k \in {Key(x) : x \in S} |-> {x \in S : Key(x) = k}]

\* C1 - Completeness: when solve_jumble(w) has returned, every ingested word
\* whose character multiset is a sub-multiset of w's and which differs from w
\* has been yielded.
C1_Completeness ==
    Solved =>
        \A x \in Ingested :
            (SubMultiset(x, input_word) /\ x # input_word) => x \in Yielded

\* C2 - Subset soundness: every word yielded by solve_jumble(w) is an ingested
\* word whose count of every character is at most that character's count in w.
C2_SubsetSoundness ==
    \A x \in Yielded :
        /\ x \in Ingested
        /\ \A c \in Letters \cup Whitespace : Count(x, c) <= Count(input_word, c)

C2_Witness ==
    /\ Solved
    /\ \E x \in Yielded : Len(x) < Len(input_word) /\ Count(x, "b") = 2

\* C3 - Self-exclusion: solve_jumble(w) never yields w, even when w was
\* ingested verbatim, and once it has returned it has yielded every other
\* ingested anagram of w.
C3_SelfExclusion ==
    /\ call = "solve_jumble" => input_word \notin Yielded
    /\ Solved =>
          \A x \in Ingested :
              (x # input_word /\ BagOf(x) = BagOf(input_word)) => x \in Yielded

C3_Witness ==
    /\ Solved
    /\ input_word \in Ingested
    /\ \E x \in Yielded : BagOf(x) = BagOf(input_word)

\* C4 - Anagram-equivalence of the key: the key a word was ingested under
\* equals the key of an ingested word or of a combo exactly when the two have
\* the same character multiset, and a lookup for a combo finds exactly the
\* ingested words with the combo's character multiset.
C4_KeyAnagramEquivalence ==
    /\ \A k \in DOMAIN index : \A a \in index[k] : \A b \in Keyed :
          (Key(b) = k) <=> (BagOf(a) = BagOf(b))
    /\ \A e \in BagToSet(looked) : \A a \in Ingested :
          (a \in Get(index, Key(e[2]))) <=> (BagOf(a) = BagOf(e[2]))

C4_Witness ==
    /\ \E k \in DOMAIN index : \E a \in index[k] : \E b \in index[k] :
          a # b /\ Len(a) = 2
    /\ \E e \in BagToSet(looked) : Get(index, Key(e[2])) # {} /\ Len(e[2]) = 2

\* C5 - Empty lines are ignored: the index is the index of the non-blank
\* lines read so far; it holds no empty word and no bucket for the empty key.
C5_BlankLinesIgnored == index = IndexOf(seen \ {<<>>})

\* C6 - solve_jumble never mutates the index: during and after the call the
\* index equals the index at the call, absent keys included.
C6_SolveLeavesIndex == call = "solve_jumble" => index = index0

C6_Witness ==
    /\ Solved
    /\ DOMAIN index # {}
    /\ \E e \in BagToSet(looked) : Key(e[2]) \notin DOMAIN index

\* C7 - Source unreadable: when open fails the error leaves ingest_word_list,
\* the index is as it was at the call, and the script takes no further step.
C7_SourceUnreadable ==
    /\ [](exc = "IOError" => (call = "ingest_word_list" /\ index = index0
                              /\ (name = "__main__" => pc = "raised")))
    /\ [][~(name = "__main__" /\ exc = "IOError")]_vars

C7_Witness == name = "__main__" /\ exc = "IOError" /\ pc = "raised"

\* C8 - Idempotent ingestion: the index is a function of the set of distinct
\* stripped words ingested, whatever their order and multiplicity.
C8_IdempotentIngestion == index = IndexOf(Ingested)

C8_Witness ==
    /\ nlines = 2
    /\ Cardinality(seen) = 1
    /\ pc = "idle"
    /\ index # EmptyIndex

\* C9 - Empty query: solve_jumble("") yields nothing and raises no error,
\* whatever the index.
C9_EmptyQuery ==
    (call = "solve_jumble" /\ input_word = <<>>) => (out = EmptyBag /\ exc = "none")

C9_Witness ==
    /\ Solved
    /\ input_word = <<>>
    /\ <<>> \in seen
    /\ seen # {<<>>}

\* C10 - Subset deduplication: within one length, each letter-multiset key is
\* looked up at most once and each matching word is yielded at most once.
C10_SubsetDeduplication ==
    /\ \A e \in BagToSet(looked) : \A f \in BagToSet(looked) :
          (e[1] = f[1] /\ Key(e[2]) = Key(f[2])) => e = f
    /\ \A e \in BagToSet(looked) : CopiesIn(e, looked) <= 1
    /\ \A e \in BagToSet(out) : CopiesIn(e, out) <= 1

====
